---- MODULE Spec2Model ----
(***************************************************************************)
(* Model of case_pdf_generator.py: the label normaliser (_pretty_label),   *)
(* the field orderer (_ordered_items), the document composer (case_to_pdf) *)
(* and the batch driver (batch_from_json).                                 *)
(*                                                                         *)
(* A Python str is modelled as a sequence of one-character strings, so     *)
(* that case conversion, substitution, title-casing and code-point         *)
(* comparison are computed character by character as the code does.        *)
(***************************************************************************)
EXTENDS Integers, Sequences, FiniteSets, TLC

(***************************************************************************)
(* Characters.  Ascii lists the printable characters from code point 32    *)
(* to 126 in code-point order (the slot of code point 96 is left empty);   *)
(* Ord gives a character's code point.                                     *)
(***************************************************************************)
Ascii ==
  <<
    " ", "!", "\"", "#", "$", "%", "&", "'", "(", ")", "*", "+", ",", "-", ".", "/",
    "0", "1", "2", "3", "4", "5", "6", "7", "8", "9", ":", ";", "<", "=", ">", "?",
    "@", "A", "B", "C", "D", "E", "F", "G", "H", "I", "J", "K", "L", "M", "N", "O",
    "P", "Q", "R", "S", "T", "U", "V", "W", "X", "Y", "Z", "[", "\\", "]", "^", "_",
    "", "a", "b", "c", "d", "e", "f", "g", "h", "i", "j", "k", "l", "m", "n", "o",
    "p", "q", "r", "s", "t", "u", "v", "w", "x", "y", "z", "{", "|", "}", "~"
  >>

Chars ==
  {Ascii[i] : i \in 1..Len(Ascii)} \ {""}

\* the code point of every character, and the character of every code point
CodePoint ==
  [c \in Chars |-> 31 + (CHOOSE i \in 1..Len(Ascii) : Ascii[i] = c)]

Ord(c) ==
  CodePoint[c]

Chr(n) ==
  Ascii[n - 31]

UpperChars ==
  {Chr(n) : n \in 65..90}

LowerChars ==
  {Chr(n) : n \in 97..122}

DigitChars ==
  {Chr(n) : n \in 48..57}

ToLower ==
  [c \in UpperChars |-> Chr(Ord(c) + 32)]

ToUpper ==
  [c \in LowerChars |-> Chr(Ord(c) - 32)]

\* [A-Z] and [a-z] of the regular expressions, str.isupper()/islower() of
\* one ASCII character
IsUpper(c) ==
  c \in UpperChars

IsLower(c) ==
  c \in LowerChars

IsDigit(c) ==
  c \in DigitChars

\* str.isalnum() of one character
IsAlnum(c) ==
  IsUpper(c) \/ IsLower(c) \/ IsDigit(c)

\* a character Python's regex class for whitespace and str.strip() treat as whitespace
IsSpace(c) ==
  c = " "

LowerChar(c) ==
  IF IsUpper(c) THEN ToLower[c] ELSE c

UpperChar(c) ==
  IF IsLower(c) THEN ToUpper[c] ELSE c

(***************************************************************************)
(* str operations used by the program.                                     *)
(***************************************************************************)
\* str.lower()
Lower(s) ==
  [i \in 1..Len(s) |-> LowerChar(s[i])]

\* str.strip()
RECURSIVE LStrip(_)
LStrip(s) ==
  IF s # <<>> /\ IsSpace(Head(s)) THEN LStrip(Tail(s)) ELSE s

RECURSIVE RStrip(_)
RStrip(s) ==
  IF s # <<>> /\ IsSpace(s[Len(s)]) THEN RStrip(SubSeq(s, 1, Len(s) - 1)) ELSE s

Strip(s) ==
  RStrip(LStrip(s))

\* whether old occurs in s at position i
MatchesAt(s, old, i) ==
  /\ i + Len(old) - 1 <= Len(s)
  /\ \A j \in 1..Len(old) : s[i + j - 1] = old[j]

\* the substring test  old in s
Contains(s, old) ==
  \E i \in 1..(Len(s) + 1) : MatchesAt(s, old, i)

\* str.replace(old, new) for a non-empty old: non-overlapping, left to right
RECURSIVE Replace(_, _, _)
Replace(s, old, new) ==
  IF s = <<>> THEN <<>>
  ELSE IF MatchesAt(s, old, 1)
       THEN new \o Replace(SubSeq(s, Len(old) + 1, Len(s)), old, new)
       ELSE <<Head(s)>> \o Replace(Tail(s), old, new)

\* str.title(): a cased character is upper-cased when the character before
\* it is not cased, and lower-cased otherwise
IsCased(c) ==
  IsUpper(c) \/ IsLower(c)

Title(s) ==
  [i \in 1..Len(s) |->
     IF i > 1 /\ IsCased(s[i - 1]) THEN LowerChar(s[i]) ELSE UpperChar(s[i])]

\* comparison of two str by code points, as list.sort compares its keys
RECURSIVE StrLess(_, _)
StrLess(a, b) ==
  IF b = <<>> THEN FALSE
  ELSE IF a = <<>> THEN TRUE
  ELSE IF Head(a) = Head(b) THEN StrLess(Tail(a), Tail(b))
  ELSE Ord(Head(a)) < Ord(Head(b))

(***************************************************************************)
(* Module constants.                                                       *)
(***************************************************************************)
CLINICAL_PREFERRED_ORDER ==
  << <<"p","r","e","s","e","n","t","i","n","g","_","v","a">>, <<"u","n","a","i","d","e","d","_","v","a">>, <<"n","e","a","r","_","v","a">>,
     <<"s","u","b","j","e","c","t","i","v","e","_","r","e","f","r","a","c","t","i","o","n">>, <<"n","e","a","r","_","a","d","d">>,
     <<"t","o","n","o","m","e","t","r","y">>, <<"i","o","P">>, <<"p","a","c","h","y","m","e","t","r","y">>,
     <<"p","u","p","i","l","s">>, <<"c","o","v","e","r","_","t","e","s","t">>,
     <<"s","l","i","t","_","l","a","m","p","_","e","x","a","m">>, <<"a","n","t","e","r","i","o","r","_","s","e","g","m","e","n","t">>,
     <<"f","u","n","d","u","s">>, <<"f","u","n","d","u","s","_","e","x","a","m">>,
     <<"g","o","n","i","o","s","c","o","p","y">>, <<"o","p","t","i","c","_","n","e","r","v","e">>, <<"v","i","s","u","a","l","_","f","i","e","l","d","s">>,
     <<"t","e","a","r","_","b","r","e","a","k","u","p","_","t","i","m","e">>, <<"t","b","u","t","s">>, <<"k","e","r","a","t","o","m","e","t","r","y">> >>

IMAGING_PREFERRED_ORDER ==
  << <<"o","c","t">>, <<"r","n","f","l">>, <<"m","a","c","_","o","c","t">>, <<"m","a","c","u","l","a","r","_","o","c","t">>,
     <<"f","u","n","d","u","s","_","p","h","o","t","o">>, <<"f","u","n","d","u","s","_","p","h","o","t","o","g","r","a","p","h","y">>,
     <<"h","v","f">>, <<"v","f">>, <<"g","d","x">>, <<"h","R","T">> >>

(***************************************************************************)
(* _pretty_label                                                           *)
(***************************************************************************)
\* the dict  fixes : its items in source order
fixes ==
  << <<<<"i","o","p">>, <<"I","O","P">>>>,
     <<<<"i","o","P">>, <<"I","O","P">>>>,
     <<<<"r","n","f","l">>, <<"R","N","F","L">>>>,
     <<<<"c","d","_","r","a","t","i","o">>, <<"C","/","D"," ","r","a","t","i","o">>>>,
     <<<<"t","b","u","t">>, <<"T","B","U","T">>>>,
     <<<<"t","b","u","t","s">>, <<"T","B","U","T","s">>>>,
     <<<<"v","a">>, <<"V","A">>>>,
     <<<<"o","n","h">>, <<"O","N","H">>>>,
     <<<<"o","c","t">>, <<"O","C","T">>>>,
     <<<<"v","f">>, <<"V","F">>>>,
     <<<<"h","v","f">>, <<"H","V","F">>>> >>

\* the dict  replacements : its items in source order
replacements ==
  << <<<<"I","o","p">>, <<"I","O","P">>>>,
     <<<<"V","a">>, <<"V","A">>>>,
     <<<<"R","n","f","l">>, <<"R","N","F","L">>>>,
     <<<<"C","d"," ","R","a","t","i","o">>, <<"C","/","D"," ","r","a","t","i","o">>>>,
     <<<<"O","n","h">>, <<"O","N","H">>>>,
     <<<<"O","c","t">>, <<"O","C","T">>>>,
     <<<<"V","f">>, <<"V","F">>>>,
     <<<<"H","v","f">>, <<"H","V","F">>>>,
     <<<<"T","b","u","t">>, <<"T","B","U","T">>>> >>

\* the literal phrase substitutions of lines 70-72, in order
PhraseFixes ==
  << <<<<"t","e","a","r"," ","b","r","e","a","k","u","p"," ","t","i","m","e">>, <<"T","e","a","r"," ","b","r","e","a","k","-","u","p"," ","t","i","m","e">>>>,
     <<<<"f","u","n","d","u","s"," ","e","x","a","m">>, <<"F","u","n","d","u","s"," ","e","x","a","m">>>>,
     <<<<"o","p","t","i","c"," ","n","e","r","v","e">>, <<"O","p","t","i","c"," ","n","e","r","v","e">>>> >>

\* k in d  and  d[k]  for a dict given as its items
DictHas(d, k) ==
  \E i \in 1..Len(d) : d[i][1] = k

DictGet(d, k) ==
  d[CHOOSE i \in 1..Len(d) : d[i][1] = k][2]

\* re.sub(r"[_\s]+", " ", s)
RECURSIVE SubUnderscores(_)
SubUnderscores(s) ==
  IF s = <<>> THEN <<>>
  ELSE IF Head(s) = "_" \/ IsSpace(Head(s))
       THEN IF Len(s) > 1 /\ (s[2] = "_" \/ IsSpace(s[2]))
            THEN SubUnderscores(Tail(s))
            ELSE <<" ">> \o SubUnderscores(Tail(s))
       ELSE <<Head(s)>> \o SubUnderscores(Tail(s))

\* re.sub(r"(?<=[a-z])(?=[A-Z])", " ", s)
RECURSIVE SplitCamel(_)
SplitCamel(s) ==
  IF Len(s) < 2 THEN s
  ELSE IF IsLower(s[1]) /\ IsUpper(s[2])
       THEN <<s[1], " ">> \o SplitCamel(Tail(s))
       ELSE <<s[1]>> \o SplitCamel(Tail(s))

\* s = s.replace(a, b) for every (a, b) of table, in order
RECURSIVE ReplaceAll(_, _)
ReplaceAll(s, table) ==
  IF table = <<>> THEN s
  ELSE ReplaceAll(Replace(s, Head(table)[1], Head(table)[2]), Tail(table))

_pretty_label(key) ==
  IF key = <<>> THEN <<>>
  ELSE LET k_norm  == Strip(key)
           k_lower == Lower(k_norm)
       IN  IF DictHas(fixes, k_lower) THEN DictGet(fixes, k_lower)
           ELSE LET s1   == SubUnderscores(k_norm)
                    s2   == SplitCamel(s1)
                    s3   == Strip(Lower(s2))
                    s4   == ReplaceAll(s3, PhraseFixes)
                    nice == Title(s4)
                IN  ReplaceAll(nice, replacements)

(***************************************************************************)
(* Parsed JSON values.  t is the kind: "absent" stands for a key that the  *)
(* enclosing object does not have, "null" for None, "str" for a str (s),   *)
(* "list" for a list of the elements m, and "map" for a dict, whose items  *)
(* m are <<key, value>> pairs in iteration (insertion) order with pairwise *)
(* different keys.                                                         *)
(***************************************************************************)
Absent ==
  [t |-> "absent", s |-> <<>>, m |-> <<>>]

Null ==
  [t |-> "null", s |-> <<>>, m |-> <<>>]

Str(s) ==
  [t |-> "str", s |-> s, m |-> <<>>]

Map(items) ==
  [t |-> "map", s |-> <<>>, m |-> items]

List(elements) ==
  [t |-> "list", s |-> <<>>, m |-> elements]

\* d.get(k) and d[k] of a dict given as its items; Absent when k is no key
HasKey(items, k) ==
  \E i \in 1..Len(items) : items[i][1] = k

ItemGet(items, k) ==
  IF HasKey(items, k)
  THEN items[CHOOSE i \in 1..Len(items) : items[i][1] = k][2]
  ELSE Absent

\* d.get(k, default)
GetOr(v, default) ==
  IF v.t = "absent" THEN default ELSE v

\* truthiness of a value: None, "", [] and {} are falsy
Truthy(v) ==
  \/ v.t = "str" /\ v.s # <<>>
  \/ v.t \in {"map", "list"} /\ v.m # <<>>

\* x not in (None, "")  for a value x that a key or a .get() yields
NotNoneOrEmpty(v) ==
  ~(v.t \in {"null", "absent"} \/ (v.t = "str" /\ v.s = <<>>))

(***************************************************************************)
(* _ordered_items                                                          *)
(***************************************************************************)
\* line 106: lower_map = {k.lower(): k for k in keys}, as its items in the
\* order they are set; a later key replaces an earlier one with the same
\* lower(), so lower_map.get(lk) is the key of the last item for lk
lower_map(items) ==
  [i \in 1..Len(items) |-> <<Lower(items[i][1]), items[i][1]>>]

LowerMapHas(lm, lk) ==
  \E i \in 1..Len(lm) : lm[i][1] = lk

LowerMapGet(lm, lk) ==
  lm[CHOOSE i \in 1..Len(lm) :
       /\ lm[i][1] = lk
       /\ \A j \in (i + 1)..Len(lm) : lm[j][1] # lk][2]

\* the test of line 110 for k = lower_map.get(lk)
PrefEmits(items, lm, used, lk) ==
  /\ LowerMapHas(lm, lk)
  /\ LET k == LowerMapGet(lm, lk)
     IN  /\ k # <<>>
         /\ k \notin used
         /\ NotNoneOrEmpty(ItemGet(items, k))

\* the loop of lines 108-112: the state (used, ordered) after the entries prefs
RECURSIVE PreferredPass(_, _, _, _, _)
PreferredPass(items, lm, prefs, used, ordered) ==
  IF prefs = <<>> THEN [used |-> used, ordered |-> ordered]
  ELSE LET lk == Lower(Head(prefs))
       IN  IF PrefEmits(items, lm, used, lk)
           THEN LET k == LowerMapGet(lm, lk)
                IN  PreferredPass(items, lm, Tail(prefs), used \cup {k},
                                  Append(ordered, <<k, ItemGet(items, k)>>))
           ELSE PreferredPass(items, lm, Tail(prefs), used, ordered)

\* line 115 without the test  k not in used
RemainingKeepsUsed(items, used) ==
  SelectSeq(items, LAMBDA kv : NotNoneOrEmpty(kv[2]))

\* line 115: the items not used whose value is neither None nor ""
Remaining(items, used) ==
  SelectSeq(items, LAMBDA kv : kv[1] \notin used /\ NotNoneOrEmpty(kv[2]))

\* line 116: list.sort(key=...) is stable, so an item goes after the items
\* before it whose label is not greater
RECURSIVE InsertByLabel(_, _)
InsertByLabel(sorted, kv) ==
  IF sorted = <<>> THEN <<kv>>
  ELSE IF StrLess(_pretty_label(kv[1]), _pretty_label(Head(sorted)[1]))
       THEN <<kv>> \o sorted
       ELSE <<Head(sorted)>> \o InsertByLabel(Tail(sorted), kv)

RECURSIVE SortByLabel(_)
SortByLabel(items) ==
  IF items = <<>> THEN <<>>
  ELSE InsertByLabel(SortByLabel(SubSeq(items, 1, Len(items) - 1)),
                     items[Len(items)])

_ordered_items(data, preferred_order) ==
  IF data.t # "map" THEN <<>>
  ELSE LET p == PreferredPass(data.m, lower_map(data.m), preferred_order, {}, <<>>)
       IN  p.ordered \o SortByLabel(Remaining(data.m, p.used))

(***************************************************************************)
(* case_to_pdf.  A flowable of the story is a record: style is the         *)
(* paragraph style ("Spacer" for a Spacer, whose height is lit), lit the   *)
(* literal text of the source (for _p, the bold label), label the computed *)
(* label before ": " and text the formatted value.                         *)
(***************************************************************************)
\* f"{v}": str(None) is "None", a str is itself
Format(v) ==
  IF v.t = "str" THEN v.s ELSE <<"N","o","n","e">>

Paragraph(lit, style) ==
  [style |-> style, lit |-> lit, label |-> <<>>, text |-> <<>>]

Spacer(height) ==
  [style |-> "Spacer", lit |-> height, label |-> <<>>, text |-> <<>>]

\* _p(label, text, styles): Paragraph(f"<b>{label}:</b> {text}", Normal)
_p(label, text) ==
  [style |-> "Normal", lit |-> label, label |-> <<>>, text |-> Format(text)]

\* Paragraph(f"{_pretty_label(k)}: {v}", Normal)
FieldLine(kv) ==
  [style |-> "Normal", lit |-> "", label |-> _pretty_label(kv[1]), text |-> Format(kv[2])]

FieldLines(items) ==
  [i \in 1..Len(items) |-> FieldLine(items[i])]

\* "".join(c if c.isalnum() or c in ("_", "-") else "_" for c in case_id), line 140
case_to_pdf_safe(case_id) ==
  [i \in 1..Len(case_id) |->
     IF IsAlnum(case_id[i]) \/ case_id[i] \in {"_", "-"} THEN case_id[i] ELSE "_"]

\* x.get(key, {}) or {}
GetOrEmptyMap(v) ==
  IF Truthy(v) THEN v ELSE Map(<<>>)

\* lines 174-177 without the test of line 173
SectionAlways(title, section, preferred_order) ==
  <<Spacer("6"), Paragraph(title, "BlockLabel")>>
    \o FieldLines(_ordered_items(section, preferred_order))

\* lines 172-177 and 179-184: a section is in the story when its value is
\* a dict and truthy
Section(title, section, preferred_order) ==
  IF section.t = "map" /\ Truthy(section)
  THEN <<Spacer("6"), Paragraph(title, "BlockLabel")>>
         \o FieldLines(_ordered_items(section, preferred_order))
  ELSE <<>>

\* lines 146-186: the story of a case whose case_id has been read (the
\* dash of the title of line 152 is written "-")
Story(case, case_id) ==
  LET meta_topic == GetOr(ItemGet(case.m, <<"t","o","p","i","c">>), Str(<<>>))
      c          == GetOrEmptyMap(ItemGet(case.m, <<"c","a","s","e","_","d","a","t","a">>))
      clinical   == GetOrEmptyMap(ItemGet(c.m, <<"c","l","i","n","i","c","a","l","_","d","a","t","a">>))
      imaging    == GetOrEmptyMap(ItemGet(c.m, <<"i","m","a","g","i","n","g">>))
  IN  <<Paragraph("Written Exam - Sample Case", "Heading1Center")>>
      \o (IF Truthy(meta_topic)
          THEN <<[style |-> "Small", lit |-> "", label |-> <<>>,
                  text |-> _pretty_label(meta_topic.s)]>>
          ELSE <<>>)
      \o <<Paragraph("Property of OEBC", "Small"), Spacer("12"),
           Paragraph("CASE DATA", "Heading2"),
           _p("Case ID", case_id)>>
      \o (IF Truthy(meta_topic) THEN <<_p("Topic", meta_topic)>> ELSE <<>>)
      \o <<_p("Demographics", GetOr(ItemGet(c.m, <<"d","e","m","o","g","r","a","p","h","i","c","s">>), Str(<<>>))),
           _p("Chief Complaint", GetOr(ItemGet(c.m, <<"c","h","i","e","f","_","c","o","m","p","l","a","i","n","t">>), Str(<<>>))),
           _p("Ocular History", GetOr(ItemGet(c.m, <<"o","c","u","l","a","r","_","h","i","s","t","o","r","y">>), Str(<<>>))),
           _p("Medical History", GetOr(ItemGet(c.m, <<"m","e","d","i","c","a","l","_","h","i","s","t","o","r","y">>), Str(<<>>)))>>
      \o (IF Truthy(ItemGet(c.m, <<"f","a","m","i","l","y","_","h","i","s","t","o","r","y">>))
          THEN <<_p("Family History", GetOr(ItemGet(c.m, <<"f","a","m","i","l","y","_","h","i","s","t","o","r","y">>), Str(<<>>)))>>
          ELSE <<>>)
      \o Section("Clinical Data:", clinical, CLINICAL_PREFERRED_ORDER)
      \o Section("Imaging:", imaging, IMAGING_PREFERRED_ORDER)
      \o <<Spacer("6")>>

(***************************************************************************)
(* The output directory.  A file is [name, doc]; doc.complete is FALSE for *)
(* the truncated file a failed doc.build may leave behind.                 *)
(***************************************************************************)
Document(title, story) ==
  [complete |-> TRUE, title |-> title, story |-> story]

Truncated ==
  [complete |-> FALSE, title |-> Absent, story |-> <<>>]

WriteFile(fs, name, doc) ==
  {f \in fs : f.name # name} \cup {[name |-> name, doc |-> doc]}

\* what doc.build does: "ok" writes the document; "fail" raises before the
\* file is opened; "fail_partial" raises after it was opened for writing
RenderOutcomes ==
  {"ok", "fail", "fail_partial"}

\* case_to_pdf(case_data, out_dir, filename) with the output directory
\* existing or not (dir_ok), holding the files fs, and doc.build ending as
\* render.  The result: whether it raised, the error, the path returned and
\* the files afterwards.
case_to_pdf(case, filename, dir_ok, fs, render) ==
  LET case_id == GetOr(ItemGet(case.m, <<"c","a","s","e","_","i","d">>), Str(<<"c","a","s","e">>))
  IN  IF ~Truthy(filename) /\ case_id.t # "str"
      THEN [raised |-> TRUE, err |-> "TypeError", path |-> <<>>, files |-> fs]
      ELSE LET out_path == IF Truthy(filename) THEN filename.s
                           ELSE case_to_pdf_safe(case_id.s) \o <<".","p","d","f">>
               story    == Story(case, case_id)
           IN  IF ~dir_ok
               THEN [raised |-> TRUE, err |-> "OSError", path |-> <<>>, files |-> fs]
               ELSE IF render = "ok"
               THEN [raised |-> FALSE, err |-> "", path |-> out_path,
                     files |-> WriteFile(fs, out_path, Document(case_id, story))]
               ELSE IF render = "fail"
               THEN [raised |-> TRUE, err |-> "RenderError", path |-> <<>>, files |-> fs]
               ELSE [raised |-> TRUE, err |-> "RenderError", path |-> <<>>,
                     files |-> WriteFile(fs, out_path, Truncated)]

\* line 205 with "-" left out of the characters kept
batch_safe_underscore_only(case_id) ==
  [i \in 1..Len(case_id) |->
     IF IsAlnum(case_id[i]) \/ case_id[i] = "_" THEN case_id[i] ELSE "_"]

\* line 205, the same expression as line 140
batch_safe(case_id) ==
  [i \in 1..Len(case_id) |->
     IF IsAlnum(case_id[i]) \/ case_id[i] \in {"_", "-"} THEN case_id[i] ELSE "_"]

(***************************************************************************)
(* State.                                                                  *)
(*   key, label                     an input of _pretty_label, its result  *)
(*   data, preferred_order, ordered the inputs of _ordered_items, its      *)
(*                                  result                                 *)
(*   entry      the function called: batch_from_json or case_to_pdf        *)
(*   input      the file at json_path (or the case passed to case_to_pdf)  *)
(*   dir_exists whether out_dir exists                                     *)
(*   files      the files of out_dir                                       *)
(*   pc         "start", "loaded" (after line 200), "loop" (in the for     *)
(*              loop), "done" (returned) or "raised" (an exception left    *)
(*              the function)                                              *)
(*   cases, idx, outputs  the locals of batch_from_json; idx is the        *)
(*              position of the loop in cases (for a direct call of        *)
(*              case_to_pdf, cases holds its argument)                     *)
(*   err        the exception that left the function                       *)
(*   calls      the positions in cases of the cases passed to case_to_pdf, *)
(*              in call order                                              *)
(***************************************************************************)
VARIABLES key, label, data, preferred_order, ordered,
          entry, input, dir_exists, files, pc, cases, idx, outputs, err, calls

vars ==
  <<key, label, data, preferred_order, ordered,
    entry, input, dir_exists, files, pc, cases, idx, outputs, err, calls>>

labelVars ==
  <<key, label>>

orderVars ==
  <<data, preferred_order, ordered>>

ioVars ==
  <<entry, input, dir_exists, files, pc, cases, idx, outputs, err, calls>>

NotCalled ==
  [done |-> FALSE, v |-> <<>>]

Returned(v) ==
  [done |-> TRUE, v |-> v]

LabelIdle ==
  key = <<>> /\ label = NotCalled

OrderIdle ==
  data = Null /\ preferred_order = <<>> /\ ordered = NotCalled

IoIdle ==
  /\ entry = "none"
  /\ input = [readable |-> FALSE, valid |-> FALSE, data |-> Null]
  /\ dir_exists = FALSE
  /\ files = {}
  /\ pc = "idle"
  /\ cases = <<>>
  /\ idx = 0
  /\ outputs = <<>>
  /\ err = ""
  /\ calls = <<>>

(***************************************************************************)
(* Inputs.                                                                 *)
(***************************************************************************)
\* the longest generated key of the label normaliser
MaxKeyLen == 3

\* the largest number of fields of a generated mapping
MaxFields == 3

\* the largest number of cases of a generated JSON array
MaxCases == 3

SeqsUpTo(S, n) ==
  UNION {[1..k -> S] : k \in 0..n}

Range(s) ==
  {s[i] : i \in 1..Len(s)}

LabelAlphabet ==
  {"v", "a", "A", "_", " "}

LabelKeys ==
  Range(CLINICAL_PREFERRED_ORDER) \cup Range(IMAGING_PREFERRED_ORDER)
    \cup {fixes[i][1] : i \in 1..Len(fixes)}
    \cup {<<"I","O","P">>, <<"C","d","_","R","a","t","i","o">>, <<"c","u","s","t","o","m","A">>, <<"c","u","s","t","o","m","_","a">>, <<"o","d","_","f","u","n","d","u","s","_","e","x","a","m">>,
          <<"o","p","t","i","c","N","e","r","v","e">>, <<"T","e","a","r","_","B","r","e","a","k","u","p","_","T","i","m","e">>, <<"o","c","t","_","m","a","c","u","l","a">>}
    \cup SeqsUpTo(LabelAlphabet, MaxKeyLen)

OrderKeys ==
  {<<"p","u","p","i","l","s">>, <<"P","u","p","i","l","s">>, <<"f","u","n","d","u","s">>, <<"c","u","s","t","o","m","_","a">>, <<"c","u","s","t","o","m","A">>}

OrderValues ==
  {Null, Str(<<>>), Str(<<"x">>), Str(<<"y">>)}

DistinctKeys(items) ==
  \A i, j \in 1..Len(items) : i # j => items[i][1] # items[j][1]

OrderData ==
  {Map(items) : items \in {s \in SeqsUpTo(OrderKeys \X OrderValues, MaxFields) :
                             DistinctKeys(s)}}
    \cup {Null, Str(<<"x">>)}

\* a JSON object from its fields in order; a field given as Absent is left out
MkObject(fields) ==
  Map(SelectSeq(fields, LAMBDA kv : kv[2].t # "absent"))

MkBody(demographics, chief, ocular, medical, family, clinical, imaging) ==
  MkObject(<< <<<<"d","e","m","o","g","r","a","p","h","i","c","s">>, demographics>>,
              <<<<"c","h","i","e","f","_","c","o","m","p","l","a","i","n","t">>, chief>>,
              <<<<"o","c","u","l","a","r","_","h","i","s","t","o","r","y">>, ocular>>,
              <<<<"m","e","d","i","c","a","l","_","h","i","s","t","o","r","y">>, medical>>,
              <<<<"f","a","m","i","l","y","_","h","i","s","t","o","r","y">>, family>>,
              <<<<"c","l","i","n","i","c","a","l","_","d","a","t","a">>, clinical>>,
              <<<<"i","m","a","g","i","n","g">>, imaging>> >>)

MkCase(case_id, topic, case_data) ==
  MkObject(<< <<<<"c","a","s","e","_","i","d">>, case_id>>, <<<<"t","o","p","i","c">>, topic>>, <<<<"c","a","s","e","_","d","a","t","a">>, case_data>> >>)

ClinicalChoices ==
  { Absent, Null, Map(<<>>), Str(<<"n","/","a">>),
    Map(<< <<<<"p","u","p","i","l","s">>, Null>> >>),
    Map(<< <<<<"f","u","n","d","u","s">>, Str(<<"x">>)>>, <<<<"c","u","s","t","o","m","_","a">>, Null>>, <<<<"P","u","p","i","l","s">>, Str(<<"y">>)>> >>) }

ImagingChoices ==
  { Absent, Null, Map(<<>>),
    Map(<< <<<<"h","v","f">>, Null>>, <<<<"o","c","t">>, Str(<<"z">>)>> >>) }

TextChoices ==
  {Absent, Null, Str(<<"t">>)}

\* chief complaint, ocular history and medical history
HistoryChoices ==
  { <<Str(<<"c","c">>), Str(<<"o","h">>), Str(<<"m","h">>)>>,
    <<Absent, Absent, Absent>>,
    <<Null, Null, Null>>,
    <<Null, Str(<<"o","h">>), Absent>> }

BodyChoices ==
  {Absent, Null}
    \cup { MkBody(d, h[1], h[2], h[3], f, c, i) :
             d \in TextChoices, h \in HistoryChoices,
             f \in TextChoices \cup {Str(<<>>)},
             c \in ClinicalChoices, i \in ImagingChoices }

\* the cases given to a single call of case_to_pdf
ComposeCases ==
  { MkCase(id, topic, body) :
      id \in {Absent, Null, Str(<<"c","1">>)},
      topic \in {Absent, Null, Str(<<"d","r","y","_","e","y","e">>)},
      body \in BodyChoices }

FullBody ==
  MkBody(Str(<<"4","5","F">>), Str(<<"c","c">>), Str(<<"o","h">>), Str(<<"m","h">>), Str(<<"f","h">>),
         Map(<< <<<<"f","u","n","d","u","s">>, Str(<<"x">>)>>, <<<<"p","u","p","i","l","s">>, Str(<<"y">>)>> >>),
         Map(<< <<<<"o","c","t">>, Str(<<"z">>)>> >>))

\* the cases of a batch input
BatchCases ==
  { MkCase(Str(<<"c","-","1">>), Str(<<"d","r","y","_","e","y","e">>), FullBody),
    MkCase(Str(<<"c","-","1">>), Absent, Null),
    MkCase(Str(<<"A","/","B"," ","1">>), Absent, Absent),
    MkCase(Str(<<"A","_","B","_","1">>), Absent, Absent),
    MkCase(Absent, Absent, Absent),
    MkCase(Null, Absent, Absent),
    MkCase(Str(<<>>), Absent, Absent) }

\* the file at json_path: unreadable, not JSON, or JSON of one object or
\* of an array of objects
BatchInputs ==
  { [readable |-> FALSE, valid |-> FALSE, data |-> Null],
    [readable |-> TRUE, valid |-> FALSE, data |-> Null] }
    \cup { [readable |-> TRUE, valid |-> TRUE, data |-> c] : c \in BatchCases }
    \cup { [readable |-> TRUE, valid |-> TRUE, data |-> List(cs)] :
             cs \in SeqsUpTo(BatchCases, MaxCases) }

\* the case passed to case_to_pdf by a caller
SingleInput(c) ==
  [readable |-> TRUE, valid |-> TRUE, data |-> c]

(***************************************************************************)
(* The pure functions as one-step machines.                                *)
(***************************************************************************)
InitLabel ==
  /\ key \in LabelKeys
  /\ label = NotCalled
  /\ OrderIdle
  /\ IoIdle

PrettyLabel ==
  /\ ~label.done
  /\ label' = Returned(_pretty_label(key))
  /\ UNCHANGED <<key, orderVars, ioVars>>

SpecLabel ==
  InitLabel /\ [][PrettyLabel]_vars

InitOrder ==
  /\ data \in OrderData
  /\ preferred_order \in {CLINICAL_PREFERRED_ORDER, IMAGING_PREFERRED_ORDER}
  /\ ordered = NotCalled
  /\ LabelIdle
  /\ IoIdle

OrderedItems ==
  /\ ~ordered.done
  /\ ordered' = Returned(_ordered_items(data, preferred_order))
  /\ UNCHANGED <<data, preferred_order, labelVars, ioVars>>

SpecOrder ==
  InitOrder /\ [][OrderedItems]_vars

(***************************************************************************)
(* batch_from_json, step by step, and a direct call of case_to_pdf.        *)
(***************************************************************************)
InitIo ==
  /\ pc = "start"
  /\ dir_exists \in BOOLEAN
  /\ files = {}
  /\ cases = <<>>
  /\ idx = 0
  /\ outputs = <<>>
  /\ err = ""
  /\ calls = <<>>
  /\ LabelIdle
  /\ OrderIdle

Init ==
  /\ InitIo
  /\ \/ entry = "batch_from_json" /\ input \in BatchInputs
     \/ entry = "case_to_pdf" /\ input \in {SingleInput(c) : c \in BatchCases}

Raise(e) ==
  /\ pc' = "raised"
  /\ err' = e

\* lines 197-200: open(json_path), json.load, and
\* cases = data if isinstance(data, list) else [data]
Load ==
  /\ entry = "batch_from_json"
  /\ pc = "start"
  /\ IF ~input.readable THEN Raise("OSError") /\ UNCHANGED cases
     ELSE IF ~input.valid THEN Raise("JSONDecodeError") /\ UNCHANGED cases
     ELSE /\ pc' = "loaded"
          /\ cases' = (IF input.data.t = "list" THEN input.data.m ELSE <<input.data>>)
          /\ UNCHANGED err
  /\ UNCHANGED <<entry, input, dir_exists, files, idx, outputs, calls,
                 labelVars, orderVars>>

\* lines 201-202: os.makedirs(out_dir, exist_ok=True), outputs = []
MakeDirs ==
  /\ pc = "loaded"
  /\ dir_exists' = TRUE
  /\ outputs' = <<>>
  /\ idx' = 1
  /\ pc' = "loop"
  /\ UNCHANGED <<entry, input, files, cases, err, calls, labelVars, orderVars>>

\* lines 203-207 with an exception of case_to_pdf caught and the loop
\* going on to the next case
ComposeNextSkipsFailed ==
  /\ pc = "loop"
  /\ idx <= Len(cases)
  /\ LET case    == cases[idx]
         case_id == GetOr(ItemGet(case.m, <<"c","a","s","e","_","i","d">>), Str(<<"c","a","s","e">>))
     IN  IF case_id.t # "str"
         THEN /\ Raise("TypeError")
              /\ UNCHANGED <<files, idx, outputs, calls>>
         ELSE \E render \in RenderOutcomes :
                LET fname == batch_safe(case_id.s) \o <<".","p","d","f">>
                    r     == case_to_pdf(case, Str(fname), dir_exists, files, render)
                IN  /\ calls' = Append(calls, idx)
                    /\ files' = r.files
                    /\ idx' = idx + 1
                    /\ outputs' = IF r.raised THEN outputs ELSE Append(outputs, r.path)
                    /\ UNCHANGED <<pc, err>>
  /\ UNCHANGED <<entry, input, dir_exists, cases, labelVars, orderVars>>

\* lines 203-207: one iteration of the for loop
ComposeNext ==
  /\ pc = "loop"
  /\ idx <= Len(cases)
  /\ LET case    == cases[idx]
         case_id == GetOr(ItemGet(case.m, <<"c","a","s","e","_","i","d">>), Str(<<"c","a","s","e">>))
     IN  IF case_id.t # "str"
         THEN /\ Raise("TypeError")
              /\ UNCHANGED <<files, idx, outputs, calls>>
         ELSE \E render \in RenderOutcomes :
                LET fname == batch_safe(case_id.s) \o <<".","p","d","f">>
                    r     == case_to_pdf(case, Str(fname), dir_exists, files, render)
                IN  /\ calls' = Append(calls, idx)
                    /\ files' = r.files
                    /\ IF r.raised
                       THEN Raise(r.err) /\ UNCHANGED <<idx, outputs>>
                       ELSE /\ outputs' = Append(outputs, r.path)
                            /\ idx' = idx + 1
                            /\ UNCHANGED <<pc, err>>
  /\ UNCHANGED <<entry, input, dir_exists, cases, labelVars, orderVars>>

\* line 208
Return ==
  /\ pc = "loop"
  /\ idx > Len(cases)
  /\ pc' = "done"
  /\ UNCHANGED <<entry, input, dir_exists, files, cases, idx, outputs, err, calls,
                 labelVars, orderVars>>

\* a call  case_to_pdf(case, out_dir)  with no filename
CaseToPdfCall ==
  /\ entry = "case_to_pdf"
  /\ pc = "start"
  /\ \E render \in RenderOutcomes :
       LET r == case_to_pdf(input.data, Absent, dir_exists, files, render)
       IN  /\ cases' = <<input.data>>
           /\ calls' = <<1>>
           /\ idx' = 1
           /\ files' = r.files
           /\ IF r.raised
              THEN Raise(r.err) /\ UNCHANGED outputs
              ELSE pc' = "done" /\ outputs' = <<r.path>> /\ UNCHANGED err
  /\ UNCHANGED <<entry, input, dir_exists, labelVars, orderVars>>

Next ==
  \/ Load
  \/ MakeDirs
  \/ ComposeNext
  \/ Return
  \/ CaseToPdfCall

Spec ==
  Init /\ [][Next]_vars

InitCompose ==
  /\ InitIo
  /\ entry = "case_to_pdf"
  /\ input \in {SingleInput(c) : c \in ComposeCases}

SpecCompose ==
  InitCompose /\ [][CaseToPdfCall]_vars

(***************************************************************************)
(* Properties of _ordered_items (under SpecOrder).                         *)
(***************************************************************************)
\* C1: the sequence returned by _ordered_items holds exactly the entries of
\* the mapping whose value is neither None nor "": each such key once, with
\* its own value, and no other key, whatever the preferred order and also
\* when keys differ only by letter case.
OrderedHoldsExactlyNonEmpty ==
  (ordered.done /\ data.t = "map") =>
    LET out         == ordered.v
        NonEmpty(v) == v # Null /\ v # Str(<<>>)
    IN  /\ \A i \in 1..Len(data.m) :
             NonEmpty(data.m[i][2]) =>
               /\ Cardinality({j \in 1..Len(out) : out[j][1] = data.m[i][1]}) = 1
               /\ \E j \in 1..Len(out) : out[j] = data.m[i]
        /\ \A j \in 1..Len(out) :
             /\ NonEmpty(out[j][2])
             /\ \E i \in 1..Len(data.m) : data.m[i] = out[j]

\* a mapping with two non-empty keys that differ only by case and a
\* preferred key whose value is None has been ordered
OrderedCaseVariantsAndNull ==
  /\ ordered.done
  /\ data.t = "map"
  /\ preferred_order = CLINICAL_PREFERRED_ORDER
  /\ \E i, j \in 1..Len(data.m) :
       /\ data.m[i][1] # data.m[j][1]
       /\ Lower(data.m[i][1]) = Lower(data.m[j][1])
       /\ data.m[i][2] = Str(<<"x">>)
       /\ data.m[j][2] = Str(<<"y">>)
  /\ \E i \in 1..Len(data.m) :
       /\ data.m[i][2] = Null
       /\ \E q \in 1..Len(preferred_order) : preferred_order[q] = data.m[i][1]
  /\ Len(ordered.v) = 2

\* C2: the returned sequence is the same for every iteration order of the
\* same entries.
OrderIgnoresIterationOrder ==
  (ordered.done /\ data.t = "map") =>
    \A f \in Permutations(1..Len(data.m)) :
      _ordered_items(Map([i \in 1..Len(data.m) |-> data.m[f[i]]]), preferred_order)
        = ordered.v

\* C3: every returned key that matches a preferred entry case-insensitively
\* comes before every returned key that matches none, the matching keys are
\* in the order of their preferred entries, and the others are in ascending
\* order of their normalized labels.
PreferredFirstThenByLabel ==
  (ordered.done /\ data.t = "map") =>
    LET out        == ordered.v
        Matches(k) == \E q \in 1..Len(preferred_order) :
                        Lower(preferred_order[q]) = Lower(k)
        Entry(k)   == CHOOSE q \in 1..Len(preferred_order) :
                        /\ Lower(preferred_order[q]) = Lower(k)
                        /\ \A q2 \in 1..(q - 1) : Lower(preferred_order[q2]) # Lower(k)
    IN  \A a, b \in 1..Len(out) :
          a < b =>
            /\ Matches(out[b][1]) => Matches(out[a][1])
            /\ (Matches(out[a][1]) /\ Matches(out[b][1])) =>
                 Entry(out[a][1]) <= Entry(out[b][1])
            /\ (~Matches(out[a][1]) /\ ~Matches(out[b][1])) =>
                 ~StrLess(_pretty_label(out[b][1]), _pretty_label(out[a][1]))

(***************************************************************************)
(* Properties of _pretty_label (under SpecLabel).                          *)
(***************************************************************************)
\* C4: the label of "tear_breakup_time" contains "Tear break-up time", that
\* of "fundus_exam" contains "Fundus exam" and that of "optic_nerve"
\* contains "Optic nerve".
PhraseSubstitutionSurvives ==
  label.done =>
    /\ key = <<"t","e","a","r","_","b","r","e","a","k","u","p","_","t","i","m","e">> => Contains(label.v, <<"T","e","a","r"," ","b","r","e","a","k","-","u","p"," ","t","i","m","e">>)
    /\ key = <<"f","u","n","d","u","s","_","e","x","a","m">> => Contains(label.v, <<"F","u","n","d","u","s"," ","e","x","a","m">>)
    /\ key = <<"o","p","t","i","c","_","n","e","r","v","e">> => Contains(label.v, <<"O","p","t","i","c"," ","n","e","r","v","e">>)

(***************************************************************************)
(* Properties of case_to_pdf and batch_from_json (under Spec, and under    *)
(* SpecCompose for a single call of case_to_pdf).                          *)
(***************************************************************************)
CaseIdOf(case) ==
  ItemGet(case.m, <<"c","a","s","e","_","i","d">>)

\* C5: for a case whose case_id is a str, the path returned for it, by
\* case_to_pdf called without a filename and by batch_from_json, is the
\* case_id with every character that is not alphanumeric, "_" or "-"
\* replaced by "_", one for one, followed by ".pdf"; the two derivations
\* agree.
FileNameIsSanitizedCaseId ==
  \A i \in 1..Len(outputs) :
    CaseIdOf(cases[i]).t = "str" =>
      LET id   == CaseIdOf(cases[i]).s
          path == outputs[i]
          Kept == UpperChars \cup LowerChars \cup DigitChars \cup {"_", "-"}
      IN  /\ Len(path) = Len(id) + 4
          /\ \A j \in 1..Len(id) : path[j] = (IF id[j] \in Kept THEN id[j] ELSE "_")
          /\ SubSeq(path, Len(id) + 1, Len(id) + 4) = <<".","p","d","f">>
          /\ batch_safe(id) = case_to_pdf_safe(id)

\* batch_from_json has returned the path A_B_1.pdf for the case_id "A/B 1"
SanitizedNameReturned ==
  /\ entry = "batch_from_json"
  /\ pc = "done"
  /\ \E i \in 1..Len(outputs) :
       /\ CaseIdOf(cases[i]) = Str(<<"A","/","B"," ","1">>)
       /\ outputs[i] = <<"A","_","B","_","1",".","p","d","f">>

\* C6: for a case whose case_id is absent, None or "", no TypeError leaves
\* the function, the path returned is case.pdf and the Case ID line of the
\* document shows "case".
FallbackIdentifierUsed ==
  \A i \in 1..Len(cases) :
    (CaseIdOf(cases[i]).t \in {"absent", "null"} \/ CaseIdOf(cases[i]) = Str(<<>>)) =>
      /\ ~(pc = "raised" /\ err = "TypeError" /\ idx = i)
      /\ i <= Len(outputs) => outputs[i] = <<"c","a","s","e",".","p","d","f">>
      /\ i = Len(outputs) =>
           \E f \in files :
             /\ f.name = outputs[i]
             /\ \E b \in 1..Len(f.doc.story) :
                  f.doc.story[b].lit = "Case ID" /\ f.doc.story[b].text = <<"c","a","s","e">>

\* a value with every None inside it taken out
RECURSIVE DropNulls(_)
DropNulls(v) ==
  IF v.t # "map" THEN v
  ELSE Map(SelectSeq([i \in 1..Len(v.m) |-> <<v.m[i][1], DropNulls(v.m[i][2])>>],
                     LAMBDA kv : kv[2] # Null))

\* C7: on a case with fields that are missing or None at any level no
\* TypeError leaves case_to_pdf, and the document written is the document
\* of the same case with every None field left out.
NullTreatedAsAbsent ==
  /\ ~(pc = "raised" /\ err = "TypeError")
  /\ \A f \in files :
       f.doc.complete =>
         LET without == DropNulls(cases[1])
         IN  f.doc.story = Story(without, GetOr(CaseIdOf(without), Str(<<"c","a","s","e">>)))

\* C8: when batch_from_json has returned, it returned one path per case,
\* and the i-th path names a file that holds the document of the i-th case.
OneDocumentPerCase ==
  (entry = "batch_from_json" /\ pc = "done") =>
    /\ Len(outputs) = Len(cases)
    /\ \A i \in 1..Len(cases) :
         \E f \in files :
           /\ f.name = outputs[i]
           /\ f.doc.complete
           /\ f.doc.story = Story(cases[i], GetOr(CaseIdOf(cases[i]), Str(<<"c","a","s","e">>)))

\* the section of a case: case_data.clinical_data or case_data.imaging
SectionOf(case, name) ==
  LET body == ItemGet(case.m, <<"c","a","s","e","_","d","a","t","a">>)
  IN  IF body.t = "map" THEN ItemGet(body.m, name) ELSE Absent

\* the story has the block label title exactly when section is a non-empty
\* dict, and then the label is followed by exactly the lines of
\* _ordered_items(section, preferred)
SectionRendered(story, title, section, preferred) ==
  LET at    == {i \in 1..Len(story) :
                  story[i].style = "BlockLabel" /\ story[i].lit = title}
      lines == _ordered_items(section, preferred)
  IN  /\ (at # {}) <=> (section.t = "map" /\ section.m # <<>>)
      /\ Cardinality(at) <= 1
      /\ \A i \in at :
           /\ i + Len(lines) < Len(story)
           /\ \A j \in 1..Len(lines) :
                story[i + j] = [style |-> "Normal", lit |-> "",
                                label |-> _pretty_label(lines[j][1]),
                                text |-> lines[j][2].s]
           /\ story[i + Len(lines) + 1].style = "Spacer"

\* C9: in the story built by case_to_pdf, "Clinical Data:" appears exactly
\* when clinical_data is a non-empty dict and "Imaging:" exactly when
\* imaging is; a label is followed by one line "<label>: <value>" per entry
\* of _ordered_items of its dict, in that order, and the clinical block
\* comes before the imaging block.
SectionsFollowOrderedItems ==
  \A f \in files :
    f.doc.complete =>
      LET story == f.doc.story
      IN  /\ SectionRendered(story, "Clinical Data:",
                             SectionOf(cases[1], <<"c","l","i","n","i","c","a","l","_","d","a","t","a">>),
                             CLINICAL_PREFERRED_ORDER)
          /\ SectionRendered(story, "Imaging:",
                             SectionOf(cases[1], <<"i","m","a","g","i","n","g">>),
                             IMAGING_PREFERRED_ORDER)
          /\ \A i, j \in 1..Len(story) :
               (story[i].lit = "Clinical Data:" /\ story[j].lit = "Imaging:") => i < j

\* a document with both blocks, the clinical one of two lines, was written
BothSectionsWritten ==
  \E f \in files :
    /\ f.doc.complete
    /\ \E i, j \in 1..Len(f.doc.story) :
         /\ f.doc.story[i].lit = "Clinical Data:"
         /\ f.doc.story[j].lit = "Imaging:"
         /\ j = i + 4
         /\ f.doc.story[i + 1].label = <<"P","u","p","i","l","s">>

\* C10: batch_from_json reads and parses its input before it creates the
\* directory or writes a file, so that a failed read or parse leaves no
\* output; the cases are passed to case_to_pdf one at a time in input
\* order, each at most once; a failed case_to_pdf ends the call at once,
\* nothing happens after an exception, and the files written before stay:
\* a step leaves every file as it is or puts a file of the same name in its
\* place.
FailFastSequential ==
  /\ [](/\ calls = [j \in 1..Len(calls) |-> j]
        /\ Len(calls) <= Len(cases)
        /\ Len(outputs) <= Len(calls)
        /\ Len(calls) > Len(outputs) => pc = "raised"
        /\ (entry = "batch_from_json" /\ pc = "raised"
              /\ err \in {"OSError", "JSONDecodeError"}) =>
             (files = {} /\ calls = <<>>))
  /\ [][/\ pc # "raised"
        /\ pc = "start" /\ entry = "batch_from_json" =>
             (dir_exists' = dir_exists /\ files' = files)
        /\ \A f \in files :
             f \in files' \/ \E g \in files' \ files : g.name = f.name]_vars

\* the second of three cases failed to render after the first was written
SecondOfThreeFailed ==
  /\ entry = "batch_from_json"
  /\ pc = "raised"
  /\ err = "RenderError"
  /\ Len(cases) = 3
  /\ calls = <<1, 2>>
  /\ \E f \in files : f.name = outputs[1] /\ f.doc.complete

====
